---- MODULE Spec2Model ----
(***************************************************************************)
(* Tic-tac-toe game state of the React tutorial: the Game component's      *)
(* state (history, currentMove, xIsNext), the Board click handler, the     *)
(* history jump and the winner calculation.                                *)
(*                                                                         *)
(* A board is a function 0..8 -> {"null", "X", "O"} ("O" stands for the    *)
(* source's circle mark); a click with an index outside 0..8 adds that     *)
(* index to the function.  history is a sequence, so the source's          *)
(* history[n] is history[n + 1] here; HistAt(h, n) hides the shift.        *)
(***************************************************************************)
EXTENDS Integers, Sequences, FiniteSets, TLC

VARIABLES history, currentMove, xIsNext, last

vars == <<history, currentMove, xIsNext, last>>

(* The squares a user clicks are 0..MaxCell.  The board always has all    *)
(* nine squares; play ends by itself when the clicked squares are used up. *)
MaxCell == 5

Null == "null"
MarkX == "X"
MarkO == "O"
Marks == {Null, MarkX, MarkO}

NumSquares == 9
Cells == 0 .. (NumSquares - 1)

(* Array(9).fill(null) *)
EmptyBoard == [c \in Cells |-> Null]

AllBoards == [Cells -> Marks]

(* What reading a missing array element gives.                             *)
Undefined == "undefined"

(* JavaScript truthiness of a square value: null and undefined are falsy,  *)
(* a mark is truthy.                                                       *)
Truthy(v) == v # Null /\ v # Undefined

(* squares[i]: an array is a function on the indices it has a value for,   *)
(* and an index it has none for reads as undefined.                        *)
SquareAt(squares, i) == IF i \in DOMAIN squares THEN squares[i] ELSE Undefined

(* squares.slice(): the copy keeps the elements at indices 0 and up; a     *)
(* property at a negative index is not an element and is not copied.       *)
Slice(squares) == [c \in {d \in DOMAIN squares : d >= 0} |-> squares[c]]

(* squares.length: one more than the largest index of an element.          *)
ArrayLength(squares) ==
  LET idx == {d \in DOMAIN squares : d >= 0}
  IN  IF idx = {} THEN 0
      ELSE (CHOOSE d \in idx : \A e \in idx : e <= d) + 1

(* JavaScript remainder: the sign follows the dividend.                    *)
JsRem(n, d) == IF n >= 0 THEN n % d ELSE 0 - ((0 - n) % d)

(* The table of winning lines, in the source's order.                      *)
lines ==
  << <<0, 1, 2>>, <<3, 4, 5>>, <<6, 7, 8>>,
     <<0, 3, 6>>, <<1, 4, 7>>, <<2, 5, 8>>,
     <<0, 4, 8>>, <<2, 4, 6>> >>

(* A win test that compares only the first two squares of the line.       *)
LineMatchesFirstTwo(squares, i) ==
  LET a == lines[i + 1][1]
      b == lines[i + 1][2]
  IN  /\ Truthy(squares[a])
      /\ squares[a] = squares[b]

(* One pass of the loop body for table entry i (0-based): the win test.    *)
LineMatches(squares, i) ==
  LET a == lines[i + 1][1]
      b == lines[i + 1][2]
      c == lines[i + 1][3]
  IN  /\ Truthy(squares[a])
      /\ squares[a] = squares[b]
      /\ squares[a] = squares[c]

(* The loop of calculateWinner from index i.  The body returns in both     *)
(* branches: the mark when entry i matches, null otherwise, so the loop    *)
(* never reaches entry i + 1.                                              *)
calculateWinnerFrom(squares, i) ==
  IF i >= Len(lines) THEN Null
  ELSE IF LineMatches(squares, i) THEN squares[lines[i + 1][1]]
  ELSE Null

calculateWinner(squares) == calculateWinnerFrom(squares, 0)

(* history[n] of the source.                                               *)
HistAt(h, n) == h[n + 1]

(* The indices of the rendered move list: history.map((squares, move) ...) *)
moves == 0 .. (Len(history) - 1)

(* const currentSquares = history[currentMove];                            *)
currentSquares == HistAt(history, currentMove)

(* The mark the click handler writes: 'X' when xIsNext, the circle else.   *)
nextMark == IF xIsNext THEN MarkX ELSE MarkO

(* The status line Board renders: the winner when calculateWinner finds    *)
(* one, the next player otherwise.                                         *)
status ==
  LET winner == calculateWinner(currentSquares)
  IN  IF Truthy(winner) THEN "Winner: " \o winner
      ELSE "Next player: " \o (IF xIsNext THEN MarkX ELSE MarkO)

(* The record of the operation that produced the state: which handler ran, *)
(* its argument, whether it ran to its end (ok) or returned early or       *)
(* threw, the length of history when it was called, and the value a        *)
(* winner calculation returned.                                            *)
Last(op, arg, ok, len, res) ==
  [op |-> op, arg |-> arg, ok |-> ok, len |-> len, res |-> res]

Init ==
  /\ history = <<EmptyBoard>>
  /\ currentMove = 0
  /\ xIsNext = TRUE
  /\ last = Last("init", 0, TRUE, 1, Null)

(* handleClick without the test of the clicked square.                     *)
ClickReturnsEarlyWinnerOnly(squares, i) == Truthy(calculateWinner(squares))

(* The early return of handleClick:                                        *)
(*   if (squares[i] || calculateWinner(squares)) return;                   *)
ClickReturnsEarly(squares, i) ==
  Truthy(SquareAt(squares, i)) \/ Truthy(calculateWinner(squares))

(* A click handler that always writes 'X'.                                 *)
NextSquaresAlwaysX(squares, i) == [squares EXCEPT ![i] = MarkX]

(* const nextSquares = squares.slice(); nextSquares[i] = 'X' or the circle *)
(* An assignment at an index the copy has no element for adds one.         *)
NextSquares(squares, i) ==
  LET nextSquares == Slice(squares)
  IN  [c \in DOMAIN nextSquares \cup {i} |->
         IF c = i THEN nextMark ELSE nextSquares[c]]

(* handlePlay that appends to the whole history: [...history, nextSquares] *)
handlePlayAppendAll(nextSquares) ==
  LET nextHistory == Append(history, nextSquares)
  IN  /\ history' = nextHistory
      /\ currentMove' = Len(nextHistory) - 1
      /\ xIsNext' = ~xIsNext

(* handlePlay that forgets setXIsNext(!xIsNext).                           *)
handlePlayNoFlip(nextSquares) ==
  LET nextHistory == Append(SubSeq(history, 1, currentMove + 1), nextSquares)
  IN  /\ history' = nextHistory
      /\ currentMove' = Len(nextHistory) - 1
      /\ UNCHANGED xIsNext

(* handlePlay that points at nextHistory.length.                           *)
handlePlayPastEnd(nextSquares) ==
  LET nextHistory == Append(SubSeq(history, 1, currentMove + 1), nextSquares)
  IN  /\ history' = nextHistory
      /\ currentMove' = Len(nextHistory)
      /\ xIsNext' = ~xIsNext

(* Game.handlePlay: drop the snapshots after currentMove, append the new   *)
(* one, point at it and flip the turn flag.                                *)
handlePlay(nextSquares) ==
  LET nextHistory == Append(SubSeq(history, 1, currentMove + 1), nextSquares)
  IN  /\ history' = nextHistory
      /\ currentMove' = Len(nextHistory) - 1
      /\ xIsNext' = ~xIsNext

(* Board.handleClick(i) on the displayed board, with the onPlay call it    *)
(* makes.                                                                  *)
handleClick(i) ==
  /\ currentMove \in moves
  /\ \/ /\ ClickReturnsEarly(currentSquares, i)
        /\ UNCHANGED <<history, currentMove, xIsNext>>
        /\ last' = Last("click", i, FALSE, Len(history), Null)
     \/ /\ ~ClickReturnsEarly(currentSquares, i)
        /\ handlePlay(NextSquares(currentSquares, i))
        /\ last' = Last("click", i, TRUE, Len(history), Null)

(* jumpTo that forgets setXIsNext.                                         *)
jumpToKeepsTurn(nextMove) ==
  /\ currentMove' = nextMove
  /\ UNCHANGED xIsNext
  /\ UNCHANGED history
  /\ last' = Last("jump", nextMove, TRUE, Len(history), Null)

(* jumpTo that also cuts history at nextMove.                              *)
jumpToTruncates(nextMove) ==
  /\ currentMove' = nextMove
  /\ xIsNext' = (JsRem(nextMove, 2) = 0)
  /\ history' = SubSeq(history, 1, nextMove + 1)
  /\ last' = Last("jump", nextMove, TRUE, Len(history), Null)

(* The three pieces of state the Game component holds.                     *)
GameState ==
  [history |-> history, currentMove |-> currentMove, xIsNext |-> xIsNext]

(* A jump that flips the turn flag as handlePlay does.                     *)
jumpToResultFlips(state, nextMove) ==
  [state EXCEPT !.currentMove = nextMove, !.xIsNext = ~state.xIsNext]

(* What the two setters of jumpTo(nextMove) leave of a state:              *)
(*   setCurrentMove(nextMove); setXIsNext(nextMove % 2 == 0);              *)
jumpToResult(state, nextMove) ==
  [state EXCEPT !.currentMove = nextMove,
                !.xIsNext = (JsRem(nextMove, 2) = 0)]

(* Game.jumpTo(nextMove).                                                  *)
jumpTo(nextMove) ==
  LET after == jumpToResult(GameState, nextMove)
  IN  /\ currentMove' = after.currentMove
      /\ xIsNext' = after.xIsNext
      /\ history' = after.history
      /\ last' = Last("jump", nextMove, TRUE, Len(history), Null)

(* A button text without the case of the game start.                      *)
descriptionEveryMove(move) == "Go to move #" \o ToString(move)

(* The text of the button for history index move.                          *)
description(move) ==
  IF move > 0 THEN "Go to move #" \o ToString(move)
  ELSE "Go to game start"

(* The rendered list: history.map((squares, move) => <li key={move}> with  *)
(* a button that shows description and calls jumpTo(move)).                *)
moveButtons ==
  [k \in 1 .. Len(history) |->
     [key |-> k - 1, description |-> description(k - 1), jumpsTo |-> k - 1]]

(* A click on one of the squares.                                          *)
SquareClick == \E i \in 0 .. MaxCell : handleClick(i)

(* A click on one of the move buttons: onClick={() => jumpTo(move)}.       *)
MoveClick == \E move \in moves : jumpTo(move)

Next == SquareClick \/ MoveClick

Spec == Init /\ [][Next]_vars

(***************************************************************************)
(* The handlers called directly, without the rendered buttons in between:  *)
(* jumpTo takes any integer near the valid range.                          *)
(***************************************************************************)
JumpArgs == (0 - 1) .. (MaxCell + 3)

JumpCall == \E nextMove \in JumpArgs : jumpTo(nextMove)

(* handleClick when history[currentMove] is undefined: reading squares[i]  *)
(* throws a TypeError before any state is set.                             *)
ClickOnUndefined ==
  \E i \in 0 .. MaxCell :
    /\ currentMove \notin moves
    /\ UNCHANGED <<history, currentMove, xIsNext>>
    /\ last' = Last("click", i, FALSE, Len(history), Null)

NextApi == SquareClick \/ JumpCall \/ ClickOnUndefined

SpecApi == Init /\ [][NextApi]_vars

(***************************************************************************)
(* calculateWinner as a pure function: every board of nine squares is an   *)
(* input, and the one step evaluates it.                                   *)
(***************************************************************************)
InitWinner ==
  /\ history \in {<<b>> : b \in AllBoards}
  /\ currentMove = 0
  /\ xIsNext = TRUE
  /\ last = Last("init", 0, TRUE, 1, Null)

EvalWinner ==
  /\ last.op = "init"
  /\ last' = Last("winner", 0, TRUE, 1, calculateWinner(currentSquares))
  /\ UNCHANGED <<history, currentMove, xIsNext>>

NextWinner == EvalWinner

SpecWinner == InitWinner /\ [][NextWinner]_vars

(***************************************************************************)
(* Play resumed from the state after clicks on squares 6, 7 and 8, so that *)
(* the squares 0..MaxCell fill the rest of the board.                      *)
(***************************************************************************)
BoardAfter678 ==
  << EmptyBoard,
     [EmptyBoard EXCEPT ![6] = MarkX],
     [EmptyBoard EXCEPT ![6] = MarkX, ![7] = MarkO],
     [EmptyBoard EXCEPT ![6] = MarkX, ![7] = MarkO, ![8] = MarkX] >>

InitEnd ==
  /\ history = BoardAfter678
  /\ currentMove = 3
  /\ xIsNext = FALSE
  /\ last = Last("click", 8, TRUE, 3, Null)

SpecEnd == InitEnd /\ [][Next]_vars

(***************************************************************************)
(* handleClick called directly with an index next to both ends of the      *)
(* board: one below 0, the first two, the last one, one past the last.     *)
(***************************************************************************)
ClickArgs == {0 - 1, 0, 1, NumSquares - 1, NumSquares}

IndexClick == \E i \in ClickArgs : handleClick(i)

NextIndex == IndexClick \/ MoveClick

SpecIndex == Init /\ [][NextIndex]_vars

(***************************************************************************)
(* Properties.                                                             *)
(***************************************************************************)
Players == {MarkX, MarkO}

Opposite(m) == IF m = MarkX THEN MarkO ELSE MarkX

(* The eight lines of the grid: rows, columns, diagonals.                  *)
WinLines ==
  { <<0, 1, 2>>, <<3, 4, 5>>, <<6, 7, 8>>,
    <<0, 3, 6>>, <<1, 4, 7>>, <<2, 5, 8>>,
    <<0, 4, 8>>, <<2, 4, 6>> }

(* Line l of board b holds three marks m.                                  *)
LineOf(b, l, m) == b[l[1]] = m /\ b[l[2]] = m /\ b[l[3]] = m

HasCompletedLine(b) == \E l \in WinLines, m \in Players : LineOf(b, l, m)

StateUnchanged == UNCHANGED <<history, currentMove, xIsNext>>

(* C1: for every board with a completed line, calculateWinner returns a    *)
(* mark that owns a completed line of that board (all eight lines count).  *)
C1_WinnerFindsAnyLine ==
  (last.op = "winner" /\ HasCompletedLine(currentSquares))
    => /\ last.res \in Players
       /\ \E l \in WinLines : LineOf(currentSquares, l, last.res)

(* C2: when the displayed board contains a completed line, every click on  *)
(* a square is rejected and leaves history and currentMove as they were.   *)
C2_DecidedBoardRejectsMoves ==
  [][(last'.op = "click" /\ HasCompletedLine(currentSquares))
       => (~last'.ok /\ UNCHANGED <<history, currentMove>>)]_vars

(* C3: a click on a square that already holds a mark is rejected and       *)
(* leaves history, currentMove and xIsNext exactly as they were, however   *)
(* often it is repeated.                                                   *)
C3_OccupiedSquareRejected ==
  [][(last'.op = "click" /\ currentSquares[last'.arg] # Null)
       => (~last'.ok /\ StateUnchanged)]_vars

(* A click on an occupied square of an undecided board was rejected.       *)
C3_Witness ==
  /\ last.op = "click"
  /\ ~last.ok
  /\ currentSquares[last.arg] # Null
  /\ ~HasCompletedLine(currentSquares)

(* C4: an accepted click with pointer P keeps the snapshots 0..P, drops    *)
(* the later ones, appends the board with the clicked square marked, and   *)
(* points at it: the new length is P + 2 and currentMove is P + 1.         *)
C4_MoveTruncatesThenAppends ==
  [][(last'.op = "click" /\ last'.ok)
       => /\ Len(history') = currentMove + 2
          /\ \A n \in 0 .. currentMove : HistAt(history', n) = HistAt(history, n)
          /\ currentMove' = currentMove + 1
          /\ currentMove' = Len(history') - 1
          /\ HistAt(history', currentMove + 1)[last'.arg] \in Players
          /\ \A c \in Cells \ {last'.arg} :
               HistAt(history', currentMove + 1)[c] = currentSquares[c]]_vars

(* A move made at pointer 2 of a history of five or more snapshots left    *)
(* four snapshots.                                                         *)
C4_Witness ==
  /\ last.op = "click"
  /\ last.ok
  /\ last.len >= 5
  /\ Len(history) = 4
  /\ currentMove = 3

(* C5: after an accepted click the next mark is the opposite of the mark   *)
(* just placed and currentMove has grown by one.                           *)
C5_TurnPassesAfterMove ==
  [][(last'.op = "click" /\ last'.ok)
       => /\ currentMove' = currentMove + 1
          /\ currentSquares'[last'.arg] \in Players
          /\ nextMark' = Opposite(currentSquares'[last'.arg])]_vars

(* The circle was placed by a move that overwrote a discarded future.      *)
C5_Witness ==
  /\ last.op = "click"
  /\ last.ok
  /\ last.len > Len(history)
  /\ currentSquares[last.arg] = MarkO
  /\ nextMark = MarkX

(* C6: xIsNext always equals (currentMove is even).                        *)
C6_TurnFlagMatchesParity == xIsNext = (currentMove % 2 = 0)

(* A jump back to an odd move, with later snapshots kept: the circle is    *)
(* next.                                                                   *)
C6_Witness ==
  /\ last.op = "jump"
  /\ currentMove % 2 = 1
  /\ currentMove < Len(history) - 1
  /\ ~xIsNext

(* C7: history[0] is the empty board, and history[n] differs from          *)
(* history[n-1] in exactly one square, which goes from empty to 'X' for    *)
(* odd n and to the circle for even n.                                     *)
C7_HistoryIsOneMovePerStep ==
  /\ HistAt(history, 0) = EmptyBoard
  /\ \A n \in 1 .. (Len(history) - 1) :
       \E c \in Cells :
         /\ HistAt(history, n - 1)[c] = Null
         /\ HistAt(history, n)[c] = (IF n % 2 = 1 THEN MarkX ELSE MarkO)
         /\ \A d \in Cells \ {c} : HistAt(history, n)[d] = HistAt(history, n - 1)[d]

(* A sixth snapshot written over a longer, discarded line of play.         *)
C7_Witness ==
  /\ last.op = "click"
  /\ last.ok
  /\ last.len > Len(history)
  /\ Len(history) = 6

(* C8: a jump to a listed move sets currentMove to it and leaves history   *)
(* as it was; the displayed board is history[m] and 'X' is next exactly    *)
(* when m is even.                                                         *)
C8_JumpMovesPointerOnly ==
  [][(last'.op = "jump" /\ last'.arg \in moves)
       => /\ currentMove' = last'.arg
          /\ history' = history
          /\ currentSquares' = HistAt(history, last'.arg)
          /\ (nextMark' = MarkX) <=> (last'.arg % 2 = 0)]_vars

(* A jump to the game start from a history of three or more snapshots.     *)
C8_Witness ==
  /\ last.op = "jump"
  /\ last.arg = 0
  /\ Len(history) >= 3
  /\ currentSquares = EmptyBoard
  /\ nextMark = MarkX

(* C9: a jump to a move below 0 or at or past the length of history fails  *)
(* and leaves history, currentMove and xIsNext as they were.               *)
C9_OutOfRangeJumpRejected ==
  [][(last'.op = "jump" /\ last'.arg \notin moves)
       => (~last'.ok /\ StateUnchanged)]_vars

(* C10: currentMove is always an index of history, so the displayed board  *)
(* is a board of nine squares.                                             *)
C10_PointerInsideHistory ==
  /\ currentMove \in 0 .. (Len(history) - 1)
  /\ currentSquares \in AllBoards

(* All clicked squares are used and the pointer is at the last snapshot.   *)
C10_Witness ==
  /\ Len(history) = MaxCell + 2
  /\ currentMove = MaxCell + 1

(* C11: history always holds between 1 and 10 snapshots: at most nine      *)
(* moves after the initial one.                                            *)
C11_HistoryLengthBounded ==
  /\ Len(history) >= 1
  /\ Len(history) <= NumSquares + 1

(* Nine moves were played: history holds ten snapshots.                    *)
C11_Witness ==
  /\ Len(history) = NumSquares + 1
  /\ currentMove = NumSquares

(* C12: the status line is "Winner: m" exactly when the displayed board    *)
(* holds a completed line of mark m, and "Next player: " with the next     *)
(* mark when the board holds no completed line.                            *)
C12_StatusNamesWinnerOrNext ==
  /\ \A m \in Players :
       (status = "Winner: " \o m)
         <=> (\E l \in WinLines : LineOf(currentSquares, l, m))
  /\ ~HasCompletedLine(currentSquares)
       => status = "Next player: " \o nextMark

(* C13: for a board without a completed line calculateWinner returns null *)
(* (the empty board and a full drawn board included), and whatever it      *)
(* returns besides null is a player's mark that owns a completed line.     *)
C13_NoLineNoWinner ==
  last.op = "winner"
    => /\ ~HasCompletedLine(currentSquares) => last.res = Null
       /\ last.res # Null
            => /\ last.res \in Players
               /\ \E l \in WinLines : LineOf(currentSquares, l, last.res)

(* A full board without a completed line was evaluated: a draw.            *)
C13_Witness ==
  /\ last.op = "winner"
  /\ \A c \in Cells : currentSquares[c] # Null
  /\ ~HasCompletedLine(currentSquares)
  /\ last.res = Null

(* C14: a click is accepted exactly when its index is in 0..8, the square  *)
(* is empty and the displayed board has no completed line; a rejected      *)
(* click changes nothing, and every board of history has nine squares.     *)
C14_MoveAcceptedIffLegal ==
  [][(last'.op = "click")
       => /\ last'.ok <=> /\ last'.arg \in Cells
                          /\ currentSquares[last'.arg] = Null
                          /\ ~HasCompletedLine(currentSquares)
          /\ ~last'.ok => StateUnchanged
          /\ \A n \in 0 .. (Len(history') - 1) :
               /\ DOMAIN HistAt(history', n) = Cells
               /\ ArrayLength(HistAt(history', n)) = NumSquares]_vars

Digit == <<"0", "1", "2", "3", "4", "5", "6", "7", "8", "9">>

(* The decimal numeral of a natural number.                                *)
RECURSIVE Decimal(_)
Decimal(n) ==
  IF n < 10 THEN Digit[n + 1]
  ELSE Decimal(n \div 10) \o Digit[(n % 10) + 1]

MoveLabel(m) == IF m = 0 THEN "Go to game start" ELSE "Go to move #" \o Decimal(m)

(* The list has one entry per index of history, in increasing order, each  *)
(* with its label and its own index as jump target; the jump targets are   *)
(* the moves a click on a move button can pass.                            *)
MoveListMatchesHistory ==
  /\ Len(moveButtons) = Len(history)
  /\ \A k \in 1 .. Len(moveButtons) :
       /\ moveButtons[k].key = k - 1
       /\ moveButtons[k].description = MoveLabel(k - 1)
       /\ moveButtons[k].jumpsTo = k - 1
       /\ moveButtons[k].jumpsTo \in 0 .. (Len(history) - 1)
  /\ moves = {moveButtons[k].jumpsTo : k \in 1 .. Len(moveButtons)}

(* C15: the move list has exactly one entry per index m of history, in     *)
(* increasing order, labelled "Go to game start" for 0 and "Go to move #m" *)
(* otherwise, and every jump made from it goes to the index of an entry,   *)
(* which is inside history.                                                *)
C15_MoveListAndJumpsInRange ==
  /\ []MoveListMatchesHistory
  /\ [][(last'.op = "jump")
          => /\ last'.arg \in moves
             /\ last'.arg \in 0 .. (Len(history) - 1)]_vars

(* A jump made from a list that shows "Go to move #2" as its third entry.  *)
C15_Witness ==
  /\ last.op = "jump"
  /\ Len(moveButtons) >= 3
  /\ moveButtons[1].description = "Go to game start"
  /\ moveButtons[3].description = "Go to move #2"
  /\ last.arg = moveButtons[3].jumpsTo

(* C16: no snapshot of history holds a completed line of 'X' and one of    *)
(* the circle at once, and no snapshot but the last holds a completed      *)
(* line: play never continues past a decided board.                        *)
C16_NoPlayPastDecidedBoard ==
  /\ \A n \in 0 .. (Len(history) - 1) :
       ~(/\ \E l \in WinLines : LineOf(HistAt(history, n), l, MarkX)
         /\ \E l \in WinLines : LineOf(HistAt(history, n), l, MarkO))
  /\ \A n \in 0 .. (Len(history) - 2) : ~HasCompletedLine(HistAt(history, n))

(* The number of squares of board b that hold m.                           *)
CountOf(b, m) == Cardinality({c \in DOMAIN b : b[c] = m})

(* C17: snapshot n of history holds exactly n marks: ceil(n/2) 'X' and     *)
(* floor(n/2) circles.                                                     *)
C17_SnapshotHoldsAlternatingMarks ==
  \A n \in 0 .. (Len(history) - 1) :
    /\ CountOf(HistAt(history, n), MarkX) = (n + 1) \div 2
    /\ CountOf(HistAt(history, n), MarkO) = n \div 2
    /\ CountOf(HistAt(history, n), Null) = NumSquares - n

(* A full board written over a discarded line of play: five 'X' and four   *)
(* circles.                                                                *)
C17_Witness ==
  /\ Len(history) = NumSquares + 1
  /\ last.op = "click"
  /\ last.ok
  /\ last.len > Len(history) - 1
  /\ CountOf(HistAt(history, NumSquares), MarkX) = 5
  /\ CountOf(HistAt(history, NumSquares), MarkO) = 4

(* C18: from a state with pointer P, a jump to any listed move m followed  *)
(* by a jump to P gives back history, currentMove and xIsNext, and a jump  *)
(* to m made twice gives the same state as made once.                      *)
C18_JumpRoundTripAndIdempotent ==
  \A m \in moves :
    LET there == jumpToResult(GameState, m)
    IN  /\ jumpToResult(there, currentMove) = GameState
        /\ jumpToResult(there, m) = there

(* A state reached by a jump, from which a jump to the next move changes   *)
(* the pointer and the turn flag.                                          *)
C18_Witness ==
  /\ last.op = "jump"
  /\ currentMove = 2
  /\ Len(history) >= 4
  /\ jumpToResult(GameState, 3).currentMove # currentMove
  /\ jumpToResult(GameState, 3).xIsNext # xIsNext

(* C19: every accepted click moves the pointer up by one and never past 9, *)
(* so a run of clicks from pointer P accepts at most 9 - P of them; and on *)
(* a full board (currentMove = 9) or a board with a completed line every   *)
(* click is rejected.                                                      *)
C19_PlayWithoutJumpsEnds ==
  /\ [](currentMove <= NumSquares)
  /\ [][(last'.op = "click" /\ last'.ok)
          => (currentMove' = currentMove + 1 /\ currentMove' <= NumSquares)]_vars
  /\ [][(/\ last'.op = "click"
         /\ \/ currentMove = NumSquares
            \/ HasCompletedLine(currentSquares))
          => ~last'.ok]_vars
====
